---- MODULE Spec2Model ----
(***************************************************************************)
(* Model of utils/sf_cortex_agent_ops.py: the export / import / deploy     *)
(* command-line tool for Cortex agents and semantic views.                 *)
(*                                                                         *)
(* Every CLI invocation is one process that runs one command end to end,   *)
(* so each command is one action.  What survives an invocation is the      *)
(* remote service (remote); the other variables record what the last       *)
(* invocation did (its REST calls, exit status, files written, ...).       *)
(***************************************************************************)
EXTENDS Integers, Sequences, FiniteSets, TLC

VARIABLES
    remote,     \* backend: coordinate -> rows DESCRIBE AGENT returns for it
    cmd,        \* the command the last invocation ran
    imp,        \* record of the last import_agent run
    calls,      \* REST calls issued by the last import_agent run, in order
    exp,        \* record of the last export_agent run
    bulk,       \* record of the last export_all_agents run
    dep,        \* record of the last deploy_semantic_view run
    rows,       \* parse_create_body: the describe reply given
    parsed,     \* parse_create_body: what it returned
    disc,       \* record of the last list_all_agents run
    auth,       \* record of the last get_snowflake_connection run
    hostres,    \* record of the last REST host resolution
    par,        \* run_queries_parallel: the call, its workers and futures
    chat        \* chat widget: session state and what the renders did

vars == <<remote, cmd, imp, calls, exp, bulk, dep, rows, parsed, disc, auth, hostres, par, chat>>

None == "None"

(***************************************************************************)
(* JSON.  A structured value is null, an array, or an object; an object    *)
(* is an insertion-ordered list of <<key, value>> pairs with distinct keys *)
(* (a Python dict).  A JSON text is a sequence of tokens.                  *)
(***************************************************************************)
JNull == [t |-> "null", kv |-> << >>]
JArr == [t |-> "arr", kv |-> << >>]
JObj(kv) == [t |-> "obj", kv |-> kv]

Keys(kv) == {kv[i][1] : i \in 1..Len(kv)}

\* d[k] for a key the dict holds
Get(kv, k) == kv[CHOOSE i \in 1..Len(kv) : kv[i][1] = k][2]

\* d[k] = v : overwrite in place, or append a new key
Put(kv, k, v) ==
    IF k \in Keys(kv)
    THEN [i \in 1..Len(kv) |-> IF kv[i][1] = k THEN <<k, v>> ELSE kv[i]]
    ELSE Append(kv, <<k, v>>)

\* equality of structured data, ignoring key order
SameData(a, b) ==
    /\ a.t = b.t
    /\ Keys(a.kv) = Keys(b.kv)
    /\ \A k \in Keys(a.kv) : Get(a.kv, k) = Get(b.kv, k)

RECURSIVE DumpPairs(_)
DumpPairs(kv) ==
    IF kv = << >> THEN << >>
    ELSE <<kv[1][1], kv[1][2]>> \o DumpPairs(Tail(kv))

\* json.dumps
Dumps(v) ==
    CASE v.t = "null" -> <<"null">>
      [] v.t = "arr" -> <<"[", "]">>
      [] OTHER -> <<"{">> \o DumpPairs(v.kv) \o <<"}">>

Structural == {"{", "}", "[", "]", " ", "null"}

RECURSIVE LoadPairs(_, _)
LoadPairs(toks, acc) ==
    IF toks = << >> THEN acc
    ELSE LoadPairs(SubSeq(toks, 3, Len(toks)), Put(acc, toks[1], toks[2]))

\* a parser that takes any text for an empty object
LoadsAnything(text) == [ok |-> TRUE, v |-> JObj(<< >>)]

\* json.loads: [ok |-> parsed?, v |-> value]; ok = FALSE is JSONDecodeError
Loads(text) ==
    CASE text = <<"null">> -> [ok |-> TRUE, v |-> JNull]
      [] text = <<"[", "]">> -> [ok |-> TRUE, v |-> JArr]
      [] /\ Len(text) >= 2
         /\ text[1] = "{"
         /\ text[Len(text)] = "}"
         /\ Len(text) % 2 = 0
         /\ \A i \in 2..(Len(text) - 1) : text[i] \notin Structural
         -> [ok |-> TRUE,
             v |-> JObj(LoadPairs(SubSeq(text, 2, Len(text) - 1), << >>))]
      [] OTHER -> [ok |-> FALSE, v |-> JNull]

(***************************************************************************)
(* Describe replies.  A row is a dict; each of the three keys the parser   *)
(* reads is a cell: absent from the row, None, a string, a dict, or some   *)
(* other type.                                                             *)
(***************************************************************************)
Absent == [ty |-> "absent", s |-> << >>, d |-> JNull]
PyNone == [ty |-> "none", s |-> << >>, d |-> JNull]
Str(s) == [ty |-> "str", s |-> s, d |-> JNull]
Dict(d) == [ty |-> "dict", s |-> << >>, d |-> d]
Other == [ty |-> "int", s |-> << >>, d |-> JNull]

\* Python truthiness of a cell ("if value:")
Truthy(c) ==
    CASE c.ty = "str" -> c.s # << >>
      [] c.ty = "dict" -> c.d.kv # << >>
      [] c.ty = "int" -> TRUE
      [] OTHER -> FALSE

\* str.lower() on the property names that occur
Lower(name) ==
    CASE name = "CREATE_BODY" -> "create_body"
      [] name = "Definition" -> "definition"
      [] name = "COMMENT" -> "comment"
      [] OTHER -> name

\* row.get("property", "").lower()
PropertyName(row) == IF row.property.ty = "absent" THEN "" ELSE Lower(row.property.s[1])

NotFound == [found |-> FALSE, v |-> JNull]
Found(v) == [found |-> TRUE, v |-> v]

\* a legacy branch that would skip a malformed value and keep scanning
LegacyBranchSkipsMalformed(row) ==
    IF PropertyName(row) \in {"create_body", "definition"} /\ Truthy(row.value) /\ Loads(row.value.s).ok
    THEN [ret |-> TRUE, r |-> Found(Loads(row.value.s).v)]
    ELSE [ret |-> FALSE, r |-> NotFound]

\* the legacy branch of one row: [ret |-> returned?, r |-> result]
LegacyBranch(row) ==
    IF PropertyName(row) \in {"create_body", "definition"} /\ Truthy(row.value)
    THEN [ret |-> TRUE,
          r |-> IF Loads(row.value.s).ok THEN Found(Loads(row.value.s).v) ELSE NotFound]
    ELSE [ret |-> FALSE, r |-> NotFound]

\* the agent_spec branch of one row
AgentSpecBranch(row) ==
    IF row.agent_spec.ty # "absent" /\ Truthy(row.agent_spec)
    THEN CASE row.agent_spec.ty = "str" ->
                [ret |-> TRUE,
                 r |-> IF Loads(row.agent_spec.s).ok
                       THEN Found(Loads(row.agent_spec.s).v) ELSE NotFound]
           [] row.agent_spec.ty = "dict" ->
                [ret |-> TRUE, r |-> Found(row.agent_spec.d)]
           [] OTHER -> [ret |-> FALSE, r |-> NotFound]
    ELSE [ret |-> FALSE, r |-> NotFound]

RowBranchAgentSpecFirst(row) ==
    IF AgentSpecBranch(row).ret THEN AgentSpecBranch(row) ELSE LegacyBranch(row)

\* one iteration of the loop: the legacy check, then the agent_spec check
RowBranch(row) ==
    IF LegacyBranch(row).ret THEN LegacyBranch(row) ELSE AgentSpecBranch(row)

RECURSIVE parse_create_body(_)
parse_create_body(describe_results) ==
    IF describe_results = << >> THEN NotFound
    ELSE IF RowBranch(Head(describe_results)).ret
         THEN RowBranch(Head(describe_results)).r
         ELSE parse_create_body(Tail(describe_results))

(***************************************************************************)
(* Specification SpecParse: parse_create_body applied to every describe    *)
(* reply of up to MaxRows rows.                                            *)
(***************************************************************************)
MaxRows == 2

BodyA == JObj(<<<<"instructions", "hi">>>>)
BodyB == JObj(<<<<"tools", "t1">>>>)
Malformed == <<"{", "instructions">>

LegacyRow(name, text) == [property |-> Str(<<name>>), value |-> Str(text), agent_spec |-> Absent]
CurrentRow(cell) == [property |-> Absent, value |-> Absent, agent_spec |-> cell]

RowKinds ==
    {LegacyRow(n, t) : n \in {"create_body", "CREATE_BODY", "definition", "comment"},
                       t \in {Dumps(BodyA), Malformed, << >>}}
    \cup {CurrentRow(c) : c \in {Str(Dumps(BodyB)), Str(Malformed), Str(<< >>),
                                 Dict(BodyB), Dict(JObj(<< >>)), Other, PyNone}}
    \cup {[property |-> Str(<<"create_body">>), value |-> PyNone, agent_spec |-> Absent],
          [property |-> Str(<<"create_body">>), value |-> Str(Dumps(BodyA)),
           agent_spec |-> Str(Dumps(BodyB))],
          [property |-> Str(<<"create_body">>), value |-> Str(<< >>),
           agent_spec |-> Dict(BodyB)]}

DescribeReplies == UNION {[1..n -> RowKinds] : n \in 0..MaxRows}

Idle == [done |-> FALSE]
NoParse == [done |-> FALSE, r |-> NotFound]

InitParse ==
    /\ rows \in DescribeReplies
    /\ parsed = NoParse
    /\ hostres = Idle
    /\ par = Idle
    /\ chat = Idle
    /\ disc = Idle
    /\ auth = Idle
    /\ remote = << >>
    /\ cmd = "none"
    /\ imp = Idle
    /\ calls = << >>
    /\ exp = Idle
    /\ bulk = Idle
    /\ dep = Idle

Parse ==
    /\ ~parsed.done
    /\ parsed' = [done |-> TRUE, r |-> parse_create_body(rows)]
    /\ UNCHANGED <<remote, cmd, imp, calls, exp, bulk, dep, rows, disc, auth, hostres, par, chat>>

NextParse == Parse

SpecParse == InitParse /\ [][NextParse]_vars

\* a legacy-shape row whose property is create_body, with a JSON value
IsLegacyCreateBody(row) ==
    /\ row.property.ty = "str"
    /\ Lower(row.property.s[1]) = "create_body"
    /\ row.value.ty = "str"
    /\ Loads(row.value.s).ok

\* a current-shape row: one carrying agent_spec
IsCurrent(row) == row.agent_spec.ty # "absent"

\* the row holds a non-empty field the parser matches
HoldsField(row) ==
    \/ /\ row.property.ty = "str"
       /\ Lower(row.property.s[1]) \in {"create_body", "definition"}
       /\ row.value.ty = "str"
       /\ row.value.s # << >>
    \/ row.agent_spec.ty = "str" /\ row.agent_spec.s # << >>
    \/ row.agent_spec.ty = "dict" /\ row.agent_spec.d.kv # << >>

BothShapes ==
    /\ \E i \in 1..Len(rows) : IsLegacyCreateBody(rows[i])
    /\ \E j \in 1..Len(rows) : IsCurrent(rows[j])

\* C5 as stated: whenever a reply holds both a legacy create_body row (JSON
\* value) and a row carrying agent_spec, the result is the parsed value of a
\* legacy create_body row.
C5_LegacyAlwaysWins ==
    (parsed.done /\ BothShapes) =>
        \E i \in 1..Len(rows) :
            /\ IsLegacyCreateBody(rows[i])
            /\ parsed.r = Found(Loads(rows[i].value.s).v)

\* C5 amended: the legacy create_body row wins when no row before it holds a
\* non-empty matching field (first match in row order; inside one row the
\* legacy field is tried before agent_spec).
C5_FirstMatchWins ==
    parsed.done =>
        \A i \in 1..Len(rows) :
            (/\ IsLegacyCreateBody(rows[i])
             /\ \E j \in 1..Len(rows) : IsCurrent(rows[j])
             /\ \A j \in 1..(i - 1) : ~HoldsField(rows[j]))
            => parsed.r = Found(Loads(rows[i].value.s).v)

\* a reply whose legacy create_body row shares the reply with a non-empty
\* agent_spec of different content, and the legacy value was returned
C5_Witness ==
    /\ parsed.done
    /\ \E i, j \in 1..Len(rows) :
        /\ IsLegacyCreateBody(rows[i])
        /\ IsCurrent(rows[j]) /\ HoldsField(rows[j])
        /\ rows[j].agent_spec.ty = "str"
        /\ Loads(rows[j].agent_spec.s).ok
        /\ ~SameData(Loads(rows[j].agent_spec.s).v, Loads(rows[i].value.s).v)
        /\ parsed.r = Found(Loads(rows[i].value.s).v)

(***************************************************************************)
(* Python "x or y" and "not x" on optional strings.                        *)
(***************************************************************************)
Falsy(x) == x = None \/ x = ""
PyOrSecondFirst(x, y) == IF Falsy(y) THEN x ELSE y

\* x or y
PyOr(x, y) == IF Falsy(x) THEN y ELSE x

\* the same for host names and account identifiers (sequences of characters;
\* the empty one stands for None and for "")
NoText(x) == x = << >>

(***************************************************************************)
(* REST transport configuration.  Host names are sequences of characters.  *)
(***************************************************************************)
LowerCharKeepsCase(c) == c

\* str.lower, on the characters host names are made of here
LowerChar(c) ==
    CASE c = "M" -> "m"
      [] c = "O" -> "o"
      [] c = "H" -> "h"
      [] OTHER -> c

\* host.lower().replace("_", "-")
NormalizeHost(host) ==
    [i \in 1..Len(host) |-> IF LowerChar(host[i]) = "_" THEN "-" ELSE LowerChar(host[i])]

TokenMissingNever(token) == FALSE

\* if not token: raise ValueError
TokenMissing(token) == Falsy(token)

\* get_rest_api_config, after "arg or os.getenv(...)" filled the three values
get_rest_api_config(host, token, account) ==
    IF NoText(host) /\ NoText(account) THEN [ok |-> FALSE, host |-> << >>, token |-> None]
    ELSE IF TokenMissing(token) THEN [ok |-> FALSE, host |-> << >>, token |-> None]
    ELSE [ok |-> TRUE,
          host |-> NormalizeHost(IF NoText(host)
                                 THEN account \o <<".snowflakecomputing.com">>
                                 ELSE host),
          token |-> token]

(***************************************************************************)
(* Import: resolving the body and the coordinate.                          *)
(***************************************************************************)
\* "create_body" in config and "metadata" in config
IsArtifact(config) == config.has_create_body /\ config.has_metadata

BodyMissingNever(create_body) == FALSE

\* create_body is None
BodyMissing(create_body) == create_body.t = "null"

Unresolved == [ok |-> FALSE, database |-> None, schema |-> None,
               agent_name |-> None, create_body |-> JNull]

extract_create_body(config, database, schema, agent_name) ==
    IF IsArtifact(config)
    THEN IF BodyMissing(config.create_body) THEN Unresolved
         ELSE LET db == PyOr(database, config.metadata.database)
                  sc == PyOr(schema, config.metadata.schema)
                  nm == PyOr(agent_name, config.metadata.agent_name)
              IN IF Falsy(db) \/ Falsy(sc) \/ Falsy(nm) THEN Unresolved
                 ELSE [ok |-> TRUE, database |-> db, schema |-> sc,
                       agent_name |-> nm, create_body |-> config.create_body]
    ELSE IF Falsy(database) \/ Falsy(schema) \/ Falsy(agent_name) THEN Unresolved
         ELSE [ok |-> TRUE, database |-> database, schema |-> schema,
               agent_name |-> agent_name, create_body |-> config.doc]

(***************************************************************************)
(* Import: the REST calls.  post and put are the replies the service gives *)
(* to the two calls: [err |-> the call raised (no reply), status, text].   *)
(***************************************************************************)
\* requests' Response.raise_for_status: raises HTTPError on 4xx and 5xx
raise_for_status(status) == 400 <= status /\ status < 600

Created(status) == status \in {200, 201}

TryPutOnAnyConflict(status, replace) == status = 409

TryPutOnAnyError(status, replace) == status >= 400

\* elif response.status_code == 409 and replace
TryPut(status, replace) == status = 409 /\ replace

PostUrl(host, database, schema) ==
    [host |-> host, database |-> database, schema |-> schema, agent |-> None]

PutUrlOfCollection(host, database, schema, agent_name) ==
    [host |-> host, database |-> database, schema |-> schema, agent |-> None]

PutUrl(host, database, schema, agent_name) ==
    [host |-> host, database |-> database, schema |-> schema, agent |-> agent_name]

WithNameOverwritten(create_body, agent_name) ==
    JObj(Put(create_body.kv, "name", agent_name))

\* create_body.copy(), then the name if the body has none
WithName(create_body, agent_name) ==
    IF "name" \in Keys(create_body.kv) THEN create_body
    ELSE JObj(Put(create_body.kv, "name", agent_name))

PutPayloadWithName(create_body, agent_name) == WithName(create_body, agent_name)

\* json=create_body  (PUT doesn't need name in body)
PutPayload(create_body, agent_name) == create_body

\* a tail that goes straight to response.json()
ResponseResultWithoutEmptyCheck(text) ==
    IF text = "json" THEN "parsed" ELSE "synthetic_raw"

\* the tail of create_agent_via_rest: what it returns for the final response
ResponseResult(text) ==
    CASE text \in {"empty", "blank"} -> "synthetic_empty"
      [] text = "json" -> "parsed"
      [] OTHER -> "synthetic_raw"

Call(method, url, payload, token, reply) ==
    [method |-> method, url |-> url, payload |-> payload, token |-> token,
     raised |-> reply.err, status |-> IF reply.err THEN 0 ELSE reply.status]

Raised(cs, exc, status) ==
    [calls |-> cs, exc |-> exc, status |-> status, result |-> "none", text |-> "none"]
Returned(cs, reply) ==
    [calls |-> cs, exc |-> "none", status |-> reply.status,
     result |-> ResponseResult(reply.text), text |-> reply.text]

create_agent_via_rest(host, token, database, schema, agent_name, create_body, replace, post, put) ==
    LET h == NormalizeHost(host)
        postCall == Call("POST", PostUrl(h, database, schema),
                         WithName(create_body, agent_name), token, post)
        putCall == Call("PUT", PutUrl(h, database, schema, agent_name),
                        PutPayload(create_body, agent_name), token, put)
    IN  IF create_body.t # "obj" THEN Raised(<< >>, "TypeError", 0)
        ELSE IF post.err THEN Raised(<<postCall>>, "ConnectionError", 0)
        ELSE IF Created(post.status) THEN Returned(<<postCall>>, post)
        ELSE IF TryPut(post.status, replace)
             THEN IF put.err THEN Raised(<<postCall, putCall>>, "ConnectionError", 0)
                  ELSE IF ~Created(put.status) /\ raise_for_status(put.status)
                       THEN Raised(<<postCall, putCall>>, "HTTPError", put.status)
                       ELSE Returned(<<postCall, putCall>>, put)
        ELSE IF raise_for_status(post.status)
             THEN Raised(<<postCall>>, "HTTPError", post.status)
             ELSE Returned(<<postCall>>, post)

(***************************************************************************)
(* The backend, as the round-trip property assumes it: a service that      *)
(* stores the payload it receives.  A successful POST creates the agent    *)
(* named in the payload under the URL's database and schema; a successful  *)
(* PUT replaces the agent the URL names.  DESCRIBE AGENT returns the       *)
(* stored payload as one agent_spec row.                                   *)
(***************************************************************************)
StoredReply(payload) == <<CurrentRow(Str(Dumps(payload)))>>

Coord(database, schema, agent_name) ==
    [database |-> database, schema |-> schema, agent_name |-> agent_name]

BackendTarget(call) ==
    Coord(call.url.database, call.url.schema,
          IF call.method = "POST" THEN Get(call.payload.kv, "name") ELSE call.url.agent)

BackendApply(store, call) ==
    IF ~call.raised /\ Created(call.status) /\ BackendTarget(call) \in DOMAIN store
    THEN [store EXCEPT ![BackendTarget(call)] = StoredReply(call.payload)]
    ELSE store

RECURSIVE BackendAfter(_, _)
BackendAfter(store, cs) ==
    IF cs = << >> THEN store
    ELSE BackendAfter(BackendApply(store, Head(cs)), Tail(cs))

(***************************************************************************)
(* import_agent, the whole command.  Returns the record of the run and the *)
(* REST calls it issued.                                                   *)
(***************************************************************************)
DryRunIgnored(dry_run) == FALSE

\* if dry_run: ... return
DryRunReturns(dry_run) == dry_run

ImportRecord(config, given, dry_run, replace, pat_token, r, exit, error, reported, result, response_text, rest_resolved) ==
    [done |-> TRUE, config |-> config, given |-> given, dry_run |-> dry_run,
     pat_token |-> pat_token,
     replace |-> replace, resolved |-> r, exit |-> exit, error |-> error,
     reported |-> reported, result |-> result, response_text |-> response_text,
     rest_resolved |-> rest_resolved,
     remote_changed |-> FALSE]

import_agent(config, database, schema, agent_name, dry_run, replace, host, token, account, post, put) ==
    LET given == Coord(database, schema, agent_name)
        r == extract_create_body(config, database, schema, agent_name)
        api == get_rest_api_config(host, token, account)
        rest == create_agent_via_rest(api.host, api.token, r.database, r.schema,
                                      r.agent_name, r.create_body, replace, post, put)
        Rec(exit, error, reported, result, rest_resolved) ==
            ImportRecord(config, given, dry_run, replace, token, r, exit, error,
                         reported, result, IF rest_resolved THEN rest.text ELSE "none",
                         rest_resolved)
    IN  IF ~config.loadable
        THEN [imp |-> ImportRecord(config, given, dry_run, replace, token, Unresolved,
                                   1, "load", "none", "none", "none", FALSE),
              calls |-> << >>]
        ELSE IF ~r.ok
        THEN [imp |-> Rec(1, "resolve", "none", "none", FALSE), calls |-> << >>]
        ELSE IF DryRunReturns(dry_run)
        THEN [imp |-> Rec(0, "none", "none", "none", FALSE), calls |-> << >>]
        ELSE IF ~api.ok
        THEN [imp |-> Rec(1, "config", "none", "none", FALSE), calls |-> << >>]
        ELSE IF rest.exc = "HTTPError"
        THEN [imp |-> Rec(1, IF ~replace /\ rest.status = 409 THEN "conflict" ELSE "http",
                          "none", "none", TRUE),
              calls |-> rest.calls]
        ELSE IF rest.exc # "none"
        THEN [imp |-> Rec(1, "unexpected", "none", "none", TRUE), calls |-> rest.calls]
        ELSE [imp |-> Rec(0, "none", IF replace THEN "updated" ELSE "created",
                          rest.result, TRUE),
              calls |-> rest.calls]

(***************************************************************************)
(* export_agent, the whole command.  store is the backend; connect_ok,     *)
(* describe_ok and write_ok say whether connecting, the DESCRIBE statement *)
(* and writing the output file raise.  A path is [dir, name].              *)
(***************************************************************************)
ExportData(database, schema, agent_name, user_name, describe_results, create_body) ==
    [metadata |-> [database |-> database, schema |-> schema, agent_name |-> agent_name,
                   exported_by |-> user_name, tool_version |-> "0.3.0"],
     describe_results |-> describe_results,
     create_body |-> IF create_body.found THEN create_body.v ELSE JNull]

File(path, data) == [path |-> path, data |-> data]

\* a close that would only happen when the command completes normally
ConnClosedOnlyOnReturn(opened, exit) == opened /\ exit = 0

\* finally: if 'conn' in locals(): conn.close() -- runs however the try block
\* is left (return, sys.exit, exception), and closes a connection that was bound
ConnClosed(opened, exit) == opened

ExportRecord(coord, output_file, exit, error, opened, closed, mkdir, written) ==
    [done |-> TRUE, coord |-> coord, output_file |-> output_file, exit |-> exit, error |-> error,
     conn_opened |-> opened, conn_closed |-> closed, mkdir |-> mkdir,
     written |-> written]

AgentNotFoundNever(describe_results) == FALSE

\* if not describe_results: ... sys.exit(1)
AgentNotFound(describe_results) == describe_results = << >>

export_agent(database, schema, agent_name, output_file, user_name, connect_ok, describe_ok, write_ok, store) ==
    LET c == Coord(database, schema, agent_name)
        describe_results == store[c]
        create_body == parse_create_body(describe_results)
        export_data == ExportData(database, schema, agent_name, user_name,
                                  describe_results, create_body)
        mkdir == output_file.dir # "."
    IN  IF ~connect_ok
        THEN ExportRecord(c, output_file, 1, "connect", FALSE, ConnClosed(FALSE, 1), FALSE, << >>)
        ELSE IF ~describe_ok
        THEN ExportRecord(c, output_file, 1, "describe", TRUE, ConnClosed(TRUE, 1), FALSE, << >>)
        ELSE IF AgentNotFound(describe_results)
        THEN ExportRecord(c, output_file, 1, "not_found", TRUE, ConnClosed(TRUE, 1), FALSE, << >>)
        ELSE IF ~write_ok
        THEN ExportRecord(c, output_file, 1, "write", TRUE, ConnClosed(TRUE, 1), mkdir, << >>)
        ELSE ExportRecord(c, output_file, 0, "none", TRUE, ConnClosed(TRUE, 0), mkdir,
                          <<File(output_file, export_data)>>)

(***************************************************************************)
(* export_all_agents, the whole command.  agents is what list_all_agents   *)
(* returned; outcomes[i] says what happens to the i-th remaining agent:    *)
(* "ok", "describe_raises" or "write_raises".  connect_ok, list_ok and     *)
(* mkdir_ok say whether connecting, list_all_agents and creating the       *)
(* output directory raise.                                                 *)
(***************************************************************************)
Upper(name) ==
    CASE name = "db1" -> "DB1"
      [] name = "s1" -> "S1"
      [] OTHER -> name

RECURSIVE SelectSeq2(_, _, _)
SelectSeq2(seq, key, filter) ==
    IF seq = << >> THEN << >>
    ELSE IF Upper(Head(seq)[key]) = Upper(filter)
         THEN <<Head(seq)>> \o SelectSeq2(Tail(seq), key, filter)
         ELSE SelectSeq2(Tail(seq), key, filter)

\* the two list comprehensions that apply the filters
ApplyFilters(agents, database_filter, schema_filter) ==
    LET byDb == IF Falsy(database_filter) THEN agents
                ELSE SelectSeq2(agents, "database", database_filter)
    IN  IF Falsy(schema_filter) THEN byDb
        ELSE SelectSeq2(byDb, "schema", schema_filter)

\* output_dir / f"{db}.{schema}.{name}.json"
OutputFile(output_dir, agent) ==
    [dir |-> output_dir,
     name |-> agent.database \o "." \o agent.schema \o "." \o agent.agent_name \o ".json"]

EmptyRowsAreExported(describe_results) == FALSE

\* if not describe_results: error_count += 1; continue
EmptyReply(describe_results) == describe_results = << >>

Tally(success, errors, written, attempted) ==
    [success_count |-> success, error_count |-> errors, written |-> written,
     attempted |-> attempted]

\* one iteration of the loop body, applied to the tally so far
ExportOne(t, agent, outcome, output_dir, user_name, store) ==
    LET describe_results == store[agent]
        export_data == ExportData(agent.database, agent.schema, agent.agent_name,
                                  user_name, describe_results,
                                  parse_create_body(describe_results))
        attempted == Append(t.attempted, agent)
    IN  IF outcome = "describe_raises"
        THEN Tally(t.success_count, t.error_count + 1, t.written, attempted)
        ELSE IF EmptyReply(describe_results)
        THEN Tally(t.success_count, t.error_count + 1, t.written, attempted)
        ELSE IF outcome = "write_raises"
        THEN Tally(t.success_count, t.error_count + 1, t.written, attempted)
        ELSE Tally(t.success_count + 1, t.error_count,
                   Append(t.written, File(OutputFile(output_dir, agent), export_data)),
                   attempted)

\* a loop that gives up at the first agent that fails
RECURSIVE ExportLoopAbortsOnFailure(_, _, _, _, _, _, _)
ExportLoopAbortsOnFailure(t, agents, outcomes, i, output_dir, user_name, store) ==
    IF i > Len(agents) \/ t.error_count > 0 THEN t
    ELSE ExportLoopAbortsOnFailure(
             ExportOne(t, agents[i], outcomes[i], output_dir, user_name, store),
             agents, outcomes, i + 1, output_dir, user_name, store)

\* for i, agent in enumerate(agents, 1): try ... except Exception
RECURSIVE ExportLoop(_, _, _, _, _, _, _)
ExportLoop(t, agents, outcomes, i, output_dir, user_name, store) ==
    IF i > Len(agents) THEN t
    ELSE ExportLoop(ExportOne(t, agents[i], outcomes[i], output_dir, user_name, store),
                    agents, outcomes, i + 1, output_dir, user_name, store)

BulkRecord(agents, outcomes, exit, error, opened, closed, mkdir, t) ==
    [done |-> TRUE, agents |-> agents, outcomes |-> outcomes, exit |-> exit,
     error |-> error, conn_opened |-> opened, conn_closed |-> closed,
     mkdir |-> mkdir, success_count |-> t.success_count,
     error_count |-> t.error_count, written |-> t.written,
     attempted |-> t.attempted]

export_all_agents(output_dir, user_name, database_filter, schema_filter, connect_ok, list_ok, mkdir_ok, discovered, outcomes, store) ==
    LET agents == ApplyFilters(discovered, database_filter, schema_filter)
        none == Tally(0, 0, << >>, << >>)
        t == ExportLoop(none, agents, outcomes, 1, output_dir, user_name, store)
    IN  IF ~connect_ok
        THEN BulkRecord(<< >>, << >>, 1, "connect", FALSE, ConnClosed(FALSE, 1), FALSE, none)
        ELSE IF ~list_ok
        THEN BulkRecord(<< >>, << >>, 1, "discover", TRUE, ConnClosed(TRUE, 1), FALSE, none)
        ELSE IF agents = << >>
        THEN BulkRecord(agents, << >>, 0, "none", TRUE, ConnClosed(TRUE, 0), FALSE, none)
        ELSE IF ~mkdir_ok
        THEN BulkRecord(agents, << >>, 1, "mkdir", TRUE, ConnClosed(TRUE, 1), FALSE, none)
        ELSE BulkRecord(agents, SubSeq(outcomes, 1, Len(agents)), 0, "none",
                        TRUE, ConnClosed(TRUE, 0), TRUE, t)

(***************************************************************************)
(* Specification Spec: the command-line tool.  A behaviour is one          *)
(* invocation started against some state of the backend; an export may     *)
(* also directly follow an import (the round trip).                        *)
(***************************************************************************)
MaxAgents == 2

Databases == {"DB1", "DB2"}
Schemas == {"S1"}
AgentNames == {"A1", "A2"}
Coords == {Coord(d, s, n) : d \in Databases, s \in Schemas, n \in AgentNames}

\* a body that carries its own name
BodyN == JObj(<<<<"name", "A2">>, <<"instructions", "hi">>>>)

LegacyReply == <<LegacyRow("comment", << >>), LegacyRow("CREATE_BODY", Dumps(BodyA))>>

InitRemotes ==
    {[c \in Coords |-> << >>],
     [c \in Coords |-> StoredReply(BodyB)],
     [c \in Coords |-> IF c.agent_name = "A1" THEN LegacyReply ELSE << >>],
     [c \in Coords |-> IF c.database = "DB1"
                       THEN IF c.agent_name = "A1"
                            THEN <<CurrentRow(Str(Malformed))>>
                            ELSE <<LegacyRow("comment", << >>),
                                   LegacyRow("create_body", Malformed)>>
                       ELSE StoredReply(BodyN)]}

Metadata(database, schema, agent_name) ==
    [database |-> database, schema |-> schema, agent_name |-> agent_name]

\* an export artifact as a loaded document
Artifact(md, body) ==
    [loadable |-> TRUE, has_create_body |-> TRUE, has_metadata |-> TRUE,
     metadata |-> md, create_body |-> body, doc |-> JNull]

\* any other document: the document itself is the body
RawDoc(has_cb, doc) ==
    [loadable |-> TRUE, has_create_body |-> has_cb, has_metadata |-> FALSE,
     metadata |-> Metadata(None, None, None), create_body |-> JNull, doc |-> doc]

Unloadable ==
    [loadable |-> FALSE, has_create_body |-> FALSE, has_metadata |-> FALSE,
     metadata |-> Metadata(None, None, None), create_body |-> JNull, doc |-> JNull]

Configs ==
    {Artifact(md, b) : md \in {Metadata("DB1", "S1", "A1"), Metadata("DB1", "S1", None)},
                       b \in {JNull, BodyA, BodyN, JArr}}
    \cup {RawDoc(FALSE, BodyA), RawDoc(TRUE, JObj(<<<<"create_body", "x">>>>)), Unloadable}

Statuses == {200, 201, 204, 304, 400, 409, 500}
Texts == {"empty", "blank", "json", "nonjson"}
Replies ==
    {[err |-> FALSE, status |-> st, text |-> tx] : st \in Statuses, tx \in Texts}
    \cup {[err |-> TRUE, status |-> 0, text |-> "empty"]}
NoReply == [err |-> TRUE, status |-> 0, text |-> "empty"]

HostArgs == {<< >>, <<"H", "_", "x">>}
Accounts == {<< >>, <<"M", "y", "_", "O">>}
Tokens == {None, "tok"}

Paths == {[dir |-> ".", name |-> "agent.json"], [dir |-> "exports", name |-> "agent.json"]}

Init ==
    /\ remote \in InitRemotes
    /\ cmd = "none"
    /\ imp = Idle
    /\ calls = << >>
    /\ exp = Idle
    /\ bulk = Idle
    /\ dep = Idle
    /\ rows = << >>
    /\ parsed = NoParse
    /\ hostres = Idle
    /\ par = Idle
    /\ chat = Idle
    /\ disc = Idle
    /\ auth = Idle

\* the state after an import run whose outcome is out
ImportDone(out) ==
    /\ imp' = [out.imp EXCEPT !.remote_changed = (BackendAfter(remote, out.calls) # remote)]
    /\ calls' = out.calls
    /\ remote' = BackendAfter(remote, out.calls)
    /\ cmd' = "import"
    /\ UNCHANGED <<exp, bulk, dep, rows, parsed, disc, auth, hostres, par, chat>>

ImportAgent ==
    /\ cmd = "none"
    /\ \E config \in Configs, database \in {None, "DB2"}, schema \in {None, "S1"},
          agent_name \in {None, "A2"}, dry_run \in BOOLEAN, replace \in BOOLEAN :
        LET r == extract_create_body(config, database, schema, agent_name)
            Run(host, token, account, post, put) ==
                import_agent(config, database, schema, agent_name, dry_run, replace,
                             host, token, account, post, put)
        IN  IF ~config.loadable \/ ~r.ok \/ DryRunReturns(dry_run)
            THEN ImportDone(Run(<< >>, None, << >>, NoReply, NoReply))
            ELSE \E host \in HostArgs, token \in Tokens, account \in Accounts :
                    IF ~get_rest_api_config(host, token, account).ok
                    THEN ImportDone(Run(host, token, account, NoReply, NoReply))
                    ELSE \E post \in Replies :
                            IF ~post.err /\ TryPut(post.status, replace)
                            THEN \E put \in Replies :
                                    ImportDone(Run(host, token, account, post, put))
                            ELSE ImportDone(Run(host, token, account, post, NoReply))

ExportAgent ==
    /\ cmd \in {"none", "import"}
    /\ \E c \in Coords, output_file \in Paths,
          connect_ok \in BOOLEAN, describe_ok \in BOOLEAN, write_ok \in BOOLEAN :
        /\ (~connect_ok => describe_ok /\ write_ok)
        /\ (~describe_ok => write_ok)
        /\ exp' = export_agent(c.database, c.schema, c.agent_name, output_file, "USER1",
                               connect_ok, describe_ok, write_ok, remote)
    /\ cmd' = "export"
    /\ UNCHANGED <<remote, imp, calls, bulk, dep, rows, parsed, disc, auth, hostres, par, chat>>

\* what list_all_agents can return: up to MaxAgents distinct coordinates
Discoveries ==
    {a \in UNION {[1..n -> Coords] : n \in 0..MaxAgents} :
        \A i, j \in 1..Len(a) : i # j => a[i] # a[j]}

Outcomes == {"ok", "describe_raises", "write_raises"}

ExportAllAgents ==
    /\ cmd = "none"
    /\ \E discovered \in Discoveries, database_filter \in {None, "db1"},
          schema_filter \in {None, "s1"}, connect_ok \in BOOLEAN,
          list_ok \in BOOLEAN, mkdir_ok \in BOOLEAN :
        \E outcomes \in [1..Len(ApplyFilters(discovered, database_filter, schema_filter))
                         -> Outcomes] :
            bulk' = export_all_agents("out", "USER1", database_filter, schema_filter,
                                      connect_ok, list_ok, mkdir_ok, discovered,
                                      outcomes, remote)
    /\ cmd' = "export_all"
    /\ UNCHANGED <<remote, imp, calls, exp, dep, rows, parsed, disc, auth, hostres, par, chat>>

Next ==
    \/ ImportAgent
    \/ ExportAgent
    \/ ExportAllAgents

Spec == Init /\ [][Next]_vars

(***************************************************************************)
(* Properties of import_agent / create_agent_via_rest.                     *)
(***************************************************************************)
\* the first call of the run was the POST and the service answered status
PostReturned(status) ==
    /\ imp.done
    /\ Len(calls) >= 1
    /\ calls[1].method = "POST"
    /\ ~calls[1].raised
    /\ calls[1].status = status

\* a second call was issued and the service answered it
PutReturned ==
    /\ imp.done
    /\ Len(calls) = 2
    /\ calls[2].method = "PUT"
    /\ ~calls[2].raised

\* C1: when the POST returns 409 and replace is false, the import exits
\* non-zero and no call follows the POST.
C1_ConflictWithoutReplace ==
    (PostReturned(409) /\ ~imp.replace) =>
        /\ imp.exit # 0
        /\ Len(calls) = 1
        /\ imp.reported = "none"

C1_Witness ==
    /\ PostReturned(409)
    /\ ~imp.replace
    /\ imp.error = "conflict"

\* C2: when the POST returns 409 and replace is true, exactly one more call
\* is issued, a PUT against the URL of the agent, and the import exits 0 if
\* that PUT returns 200 or 201.
C2_ConflictWithReplace ==
    (PostReturned(409) /\ imp.replace) =>
        /\ Len(calls) = 2
        /\ calls[2].method = "PUT"
        /\ calls[2].url = [host |-> calls[1].url.host,
                           database |-> imp.resolved.database,
                           schema |-> imp.resolved.schema,
                           agent |-> imp.resolved.agent_name]
        /\ calls[1].url.agent = None
        /\ (~calls[2].raised /\ calls[2].status \in {200, 201} => imp.exit = 0)

C2_Witness ==
    /\ PostReturned(409)
    /\ imp.replace
    /\ PutReturned
    /\ calls[2].status = 201
    /\ imp.exit = 0

\* C3: on the update path, a PUT that returns anything but 200 or 201 makes
\* the import fail (non-zero exit) and success is never reported.
C3_PutFailureIsFatal ==
    (PostReturned(409) /\ imp.replace /\ PutReturned /\ calls[2].status \notin {200, 201}) =>
        /\ imp.exit # 0
        /\ imp.reported = "none"

\* C4: a POST that returns a status that is neither 2xx nor 409 makes the
\* import fail (non-zero exit); the response is not parsed and success is
\* never reported.
C4_PostFailureIsFatal ==
    \A st \in Statuses :
        (PostReturned(st) /\ ~(200 <= st /\ st <= 299) /\ st # 409) =>
            /\ imp.exit # 0
            /\ imp.result = "none"
            /\ imp.reported = "none"

\* C8: an export artifact whose create_body is null never imports: non-zero
\* exit with the resolution error, no REST call, nothing created, whatever
\* the overrides and flags.
C8_NullBodyNeverImports ==
    (imp.done /\ imp.config.has_create_body /\ imp.config.has_metadata
        /\ imp.config.create_body = JNull) =>
        /\ imp.exit # 0
        /\ imp.error = "resolve"
        /\ calls = << >>
        /\ ~imp.rest_resolved
        /\ ~imp.remote_changed

C8_Witness ==
    /\ imp.done
    /\ imp.config.has_create_body /\ imp.config.has_metadata
    /\ imp.config.create_body = JNull
    /\ imp.dry_run
    /\ imp.replace
    /\ imp.given = Coord("DB2", "S1", "A2")
    /\ imp.exit = 1

\* C9: a dry run whose coordinate and body resolve returns without touching
\* the network: no REST configuration, no call, remote state unchanged.
C9_DryRunIsLocal ==
    (imp.done /\ imp.dry_run /\ imp.resolved.ok) =>
        /\ calls = << >>
        /\ ~imp.rest_resolved
        /\ ~imp.remote_changed
        /\ imp.exit = 0
        /\ imp.reported = "none"

C9_Witness ==
    /\ imp.done
    /\ imp.dry_run
    /\ imp.resolved.ok
    /\ imp.resolved.create_body = BodyA
    /\ imp.exit = 0

\* C15: no REST call is issued without a bearer token: every call carries
\* one, and an import that is not a dry run and has no token exits non-zero
\* without a POST or PUT, with the configuration error once its body and
\* coordinate have resolved.
C15_NoCallWithoutToken ==
    imp.done =>
        /\ \A i \in 1..Len(calls) : ~Falsy(calls[i].token)
        /\ (~imp.dry_run /\ Falsy(imp.pat_token)) =>
            /\ imp.exit # 0
            /\ calls = << >>
            /\ ~imp.remote_changed
            /\ (imp.resolved.ok => imp.error = "config")

\* a resolved import, not a dry run, started without a token
C15_Witness ==
    /\ imp.done
    /\ ~imp.dry_run
    /\ imp.resolved.ok
    /\ Falsy(imp.pat_token)
    /\ imp.error = "config"
    /\ imp.exit = 1

\* the service answered the last call of the run with a 2xx status
FinalStatusSuccessful ==
    /\ imp.done
    /\ calls # << >>
    /\ ~calls[Len(calls)].raised
    /\ 200 <= calls[Len(calls)].status /\ calls[Len(calls)].status <= 299

\* C17: when the final response has a successful status and an empty or
\* whitespace-only body, create_agent_via_rest returns the synthetic success
\* result and the import exits 0.
C17_EmptyBodyIsSuccess ==
    (FinalStatusSuccessful /\ imp.response_text \in {"empty", "blank"}) =>
        /\ imp.result = "synthetic_empty"
        /\ imp.exit = 0

\* a PUT answered 200 with a whitespace-only body
C17_Witness ==
    /\ FinalStatusSuccessful
    /\ calls[Len(calls)].method = "PUT"
    /\ calls[Len(calls)].status = 200
    /\ imp.response_text = "blank"
    /\ imp.result = "synthetic_empty"
    /\ imp.exit = 0

\* C18: a POST answered 200 or 201 makes the import succeed and report
\* "created"; "updated" is reported only after a PUT answered 200 or 201.
C18_ReportedOutcome ==
    imp.done =>
        /\ (\E st \in {200, 201} : PostReturned(st)) =>
                imp.exit = 0 /\ imp.reported = "created"
        /\ imp.reported = "updated" =>
                PutReturned /\ calls[2].status \in {200, 201}

C20_NameOnlyInPostPayload ==
    (imp.done /\ calls # << >>) =>
        LET body == imp.resolved.create_body
        IN  /\ "name" \in Keys(calls[1].payload.kv)
            /\ "name" \in Keys(body.kv) => calls[1].payload = body
            /\ "name" \notin Keys(body.kv) =>
                    calls[1].payload =
                        JObj(Append(body.kv, <<"name", imp.resolved.agent_name>>))
            /\ Len(calls) = 2 => calls[2].payload = body

\* a body with its own name, different from the agent name, went out
\* unchanged in both calls
C20_Witness ==
    /\ imp.done
    /\ Len(calls) = 2
    /\ imp.resolved.create_body = BodyN
    /\ imp.resolved.agent_name # Get(BodyN.kv, "name")
    /\ calls[1].payload = BodyN
    /\ calls[2].payload = BodyN

\* the value the import should use for a coordinate field: the override if
\* given, else the artifact's metadata value, else nothing
Wanted(field) ==
    IF imp.given[field] # None THEN imp.given[field]
    ELSE IF imp.config.has_create_body /\ imp.config.has_metadata
         THEN imp.config.metadata[field]
         ELSE None

CoordinateFields == {"database", "schema", "agent_name"}

\* C21: for an artifact each coordinate field is the override if given and
\* the metadata value otherwise; for artifacts and raw bodies alike, a field
\* left unresolved makes the import exit non-zero before any network call.
C21_OverridesThenMetadata ==
    (imp.done /\ imp.config.loadable) =>
        /\ imp.resolved.ok =>
                \A f \in CoordinateFields : imp.resolved[f] = Wanted(f) /\ Wanted(f) # None
        /\ (\E f \in CoordinateFields : Wanted(f) = None) =>
            /\ ~imp.resolved.ok
            /\ imp.exit # 0
            /\ imp.error = "resolve"
            /\ calls = << >>
            /\ ~imp.rest_resolved

\* database overridden, schema and name taken from the metadata, and the
\* import went out to the overridden coordinate
C21_Witness ==
    /\ imp.done
    /\ imp.config.has_create_body /\ imp.config.has_metadata
    /\ imp.given = Coord("DB2", None, None)
    /\ imp.config.metadata = Metadata("DB1", "S1", "A1")
    /\ imp.resolved.ok
    /\ imp.resolved.database = "DB2"
    /\ imp.resolved.schema = "S1"
    /\ imp.resolved.agent_name = "A1"
    /\ calls # << >>
    /\ calls[1].url.database = "DB2"

(***************************************************************************)
(* The import / export round trip.                                         *)
(***************************************************************************)
\* an export of the coordinate just imported from an artifact with a body,
\* where connecting, describing and writing did not raise
RoundTrip ==
    /\ cmd = "export"
    /\ imp.done
    /\ imp.config.has_create_body /\ imp.config.has_metadata
    /\ imp.config.create_body # JNull
    /\ ~imp.dry_run
    /\ imp.exit = 0
    /\ exp.coord = Coord(imp.resolved.database, imp.resolved.schema,
                         imp.resolved.agent_name)
    /\ exp.error \notin {"connect", "describe", "write"}

Exported == exp.written[1].data.create_body

\* C7 as stated: importing an artifact with a non-null body and exporting
\* the same coordinate yields an equal body.
C7_RoundTripAlways ==
    RoundTrip =>
        /\ exp.exit = 0
        /\ SameData(Exported, imp.config.create_body)

\* the service answered the last call of the import with 200 or 201
Accepted ==
    /\ calls # << >>
    /\ ~calls[Len(calls)].raised
    /\ calls[Len(calls)].status \in {200, 201}

\* C7 amended: when the service accepted the import (200/201), the exported
\* body equals the imported one if the import went by PUT or the body already
\* names the agent of the coordinate; a body without name created by POST
\* comes back with name = agent name added.
C7_RoundTripWhenNamed ==
    (RoundTrip /\ Accepted) =>
        LET body == imp.config.create_body
            last == calls[Len(calls)]
        IN  /\ (\/ last.method = "PUT"
                \/ /\ "name" \in Keys(body.kv)
                   /\ Get(body.kv, "name") = imp.resolved.agent_name)
               => exp.exit = 0 /\ SameData(Exported, body)
            /\ (last.method = "POST" /\ "name" \notin Keys(body.kv))
               => /\ exp.exit = 0
                  /\ SameData(Exported, JObj(Append(body.kv,
                                                    <<"name", imp.resolved.agent_name>>)))

\* a body without name, imported by PUT over an existing agent, came back equal
C7_Witness ==
    /\ RoundTrip
    /\ Accepted
    /\ calls[Len(calls)].method = "PUT"
    /\ imp.config.create_body = BodyA
    /\ exp.exit = 0
    /\ SameData(Exported, BodyA)

(***************************************************************************)
(* The tally of export_all_agents.                                         *)
(***************************************************************************)
\* the run connected, discovered, and went through its loop to the summary
BulkRan == bulk.done /\ bulk.conn_opened /\ bulk.error = "none"

DescribeRaised(i) == bulk.outcomes[i] = "describe_raises"

\* the i-th agent failed: describe raised, returned no row, or the write raised
ItemFailed(i) ==
    \/ bulk.outcomes[i] \in {"describe_raises", "write_raises"}
    \/ remote[bulk.agents[i]] = << >>

WrittenPaths == {bulk.written[k].path : k \in 1..Len(bulk.written)}

TallyMatches(FailedAt(_)) ==
    LET N == Len(bulk.agents)
        K == Cardinality({i \in 1..N : FailedAt(i)})
    IN  /\ bulk.success_count = N - K
        /\ bulk.error_count = K
        /\ bulk.success_count + bulk.error_count = N
        /\ Len(bulk.written) = N - K
        /\ \A i \in 1..N :
            OutputFile("out", bulk.agents[i]) \in WrittenPaths <=> ~FailedAt(i)

C12_ExitOnlyOnConnectionFailure ==
    bulk.done =>
        /\ (bulk.conn_opened => bulk.attempted = bulk.agents)
        /\ (bulk.exit # 0 => ~bulk.conn_opened)

\* C12 amended: once the loop is entered every remaining coordinate is
\* attempted in order and the exit status is 0 whatever fails inside it; the
\* exit status is 1 exactly when connecting, discovery as a whole, or the
\* creation of the output directory raised, and then nothing is attempted.
C12_NoSingleFailureAborts ==
    bulk.done =>
        /\ (bulk.error = "none" => bulk.attempted = bulk.agents /\ bulk.exit = 0)
        /\ (bulk.exit # 0 <=> bulk.error \in {"connect", "discover", "mkdir"})
        /\ (bulk.exit # 0 => bulk.exit = 1 /\ bulk.attempted = << >> /\ bulk.written = << >>)

\* the first of two agents failed and the second was still exported
C12_Witness ==
    /\ BulkRan
    /\ Len(bulk.agents) = 2
    /\ bulk.outcomes[1] = "describe_raises"
    /\ bulk.attempted = bulk.agents
    /\ bulk.success_count = 1
    /\ bulk.exit = 0

(***************************************************************************)
(* Specification SpecNames: export_all_agents over coordinates whose names *)
(* are arbitrary identifiers, dots included (SHOW returns the names of     *)
(* quoted identifiers as they are).                                        *)
(***************************************************************************)
QuotedCoords ==
    {Coord(d, s, "D") : d \in {"A", "A.B"}, s \in {"C", "B.C"}}

QuotedDiscoveries ==
    {a \in UNION {[1..n -> QuotedCoords] : n \in 0..MaxAgents} :
        \A i, j \in 1..Len(a) : i # j => a[i] # a[j]}

InitNames ==
    /\ remote \in {[c \in QuotedCoords |-> StoredReply(BodyA)],
                   [c \in QuotedCoords |-> StoredReply(BodyB)]}
    /\ cmd = "none"
    /\ imp = Idle
    /\ calls = << >>
    /\ exp = Idle
    /\ bulk = Idle
    /\ dep = Idle
    /\ rows = << >>
    /\ parsed = NoParse
    /\ disc = Idle
    /\ auth = Idle
    /\ hostres = Idle
    /\ par = Idle
    /\ chat = Idle

ExportAllQuoted ==
    /\ cmd = "none"
    /\ \E discovered \in QuotedDiscoveries :
        \E outcomes \in [1..Len(discovered) -> Outcomes] :
            bulk' = export_all_agents("out", "USER1", None, None, TRUE, TRUE, TRUE,
                                      discovered, outcomes, remote)
    /\ cmd' = "export_all"
    /\ UNCHANGED <<remote, imp, calls, exp, dep, rows, parsed, disc, auth, hostres, par, chat>>

NextNames == ExportAllQuoted

SpecNames == InitNames /\ [][NextNames]_vars

Described == exp.done /\ exp.conn_opened /\ exp.error # "describe"

\* C11: in export_agent a describe reply with zero rows is fatal: exit 1, no
\* artifact file written, and the parent directory of the output not created.
C11_EmptyReplyIsFatal ==
    (Described /\ remote[exp.coord] = << >>) =>
        /\ exp.exit = 1
        /\ exp.written = << >>
        /\ ~exp.mkdir
        /\ exp.conn_closed

\* an export into a subdirectory of an agent the backend does not have
C11_Witness ==
    /\ Described
    /\ exp.output_file.dir # "."
    /\ remote[exp.coord] = << >>
    /\ exp.error = "not_found"
    /\ exp.exit = 1

(***************************************************************************)
(* Malformed JSON in a describe reply.                                     *)
(***************************************************************************)
\* replies whose matched field holds malformed JSON
MalformedReplies ==
    {<<CurrentRow(Str(Malformed))>>,
     <<LegacyRow("comment", << >>), LegacyRow("create_body", Malformed)>>}

\* the artifact keeps the rows and has no body
ArtifactOfMalformed(file, reply) ==
    /\ file.data.create_body = JNull
    /\ file.data.describe_results = reply

\* C23: malformed JSON in a matched field is never fatal: the parser returns
\* "not found", and a single or bulk export whose write does not fail still
\* succeeds and writes an artifact with create_body null and the rows as
\* they came, counted as a success in bulk mode.
C23_MalformedIsNotFatal ==
    /\ (Described /\ exp.error # "write" /\ remote[exp.coord] \in MalformedReplies) =>
        /\ exp.exit = 0
        /\ Len(exp.written) = 1
        /\ exp.written[1].path = exp.output_file
        /\ ArtifactOfMalformed(exp.written[1], remote[exp.coord])
    /\ BulkRan =>
        /\ bulk.success_count = Len(bulk.written)
        /\ \A i \in 1..Len(bulk.agents) :
            (remote[bulk.agents[i]] \in MalformedReplies /\ bulk.outcomes[i] = "ok") =>
                \E k \in 1..Len(bulk.written) :
                    /\ bulk.written[k].path = OutputFile("out", bulk.agents[i])
                    /\ ArtifactOfMalformed(bulk.written[k], remote[bulk.agents[i]])

\* a bulk export of two agents, both with malformed bodies, one in each
\* shape: two successes
C23_Witness ==
    /\ BulkRan
    /\ Len(bulk.agents) = 2
    /\ remote[bulk.agents[1]] = <<CurrentRow(Str(Malformed))>>
    /\ remote[bulk.agents[2]] \in MalformedReplies
    /\ remote[bulk.agents[2]] # remote[bulk.agents[1]]
    /\ bulk.success_count = 2
    /\ bulk.written[1].data.create_body = JNull
    /\ bulk.written[2].data.create_body = JNull

(***************************************************************************)
(* Discovery: list_all_agents.  The catalog is what the account answers:   *)
(* show_ok says whether SHOW DATABASES succeeds; each database has a name, *)
(* ok (USE DATABASE and SHOW SCHEMAS succeed) and its schemas; each schema *)
(* has a name, ok (SHOW AGENTS IN SCHEMA succeeds) and the agent rows it   *)
(* holds.  A scope that cannot be enumerated may well hold agents.         *)
(***************************************************************************)
AgentRow(database, schema, name) ==
    [database_name |-> database, schema_name |-> schema, name |-> name]

SchemaFailureIgnored(schema) == FALSE

\* except Exception: continue   (around SHOW AGENTS IN SCHEMA)
SchemaSkipped(schema) == ~schema.ok

\* except Exception: continue   (around USE DATABASE / SHOW SCHEMAS)
DatabaseSkipped(database) == ~database.ok

\* for row in agent_rows: agents.append({...})
RECURSIVE AgentsOfRows(_)
AgentsOfRows(agent_rows) ==
    IF agent_rows = << >> THEN << >>
    ELSE <<Coord(Head(agent_rows).database_name, Head(agent_rows).schema_name,
                 Head(agent_rows).name)>> \o AgentsOfRows(Tail(agent_rows))

\* for schema in schemas: try ... except
RECURSIVE AgentsOfSchemas(_)
AgentsOfSchemas(schemas) ==
    IF schemas = << >> THEN << >>
    ELSE (IF SchemaSkipped(Head(schemas)) THEN << >>
          ELSE AgentsOfRows(Head(schemas).agent_rows))
         \o AgentsOfSchemas(Tail(schemas))

\* for database in databases: try ... except
RECURSIVE AgentsOfDatabases(_)
AgentsOfDatabases(databases) ==
    IF databases = << >> THEN << >>
    ELSE (IF DatabaseSkipped(Head(databases)) THEN << >>
          ELSE AgentsOfSchemas(Head(databases).schemas))
         \o AgentsOfDatabases(Tail(databases))

\* a discovery that would treat a failing SHOW DATABASES like a failing scope
list_all_agents_tolerant(catalog) ==
    [done |-> TRUE, catalog |-> catalog, raised |-> FALSE,
     agents |-> AgentsOfDatabases(catalog.databases), cursor_closed |-> TRUE]

list_all_agents(catalog) ==
    IF ~catalog.show_ok
    THEN [done |-> TRUE, catalog |-> catalog, raised |-> TRUE, agents |-> << >>,
          cursor_closed |-> TRUE]
    ELSE [done |-> TRUE, catalog |-> catalog, raised |-> FALSE,
          agents |-> AgentsOfDatabases(catalog.databases), cursor_closed |-> TRUE]

(***************************************************************************)
(* Specification SpecList: list_all_agents against every small catalog.    *)
(***************************************************************************)
MaxDatabases == 2
MaxSchemas == 2

DatabaseName(i) == "DB" \o ToString(i)
SchemaName(j) == "S" \o ToString(j)

\* the states of one schema: empty, holding one agent, or holding one agent
\* and not enumerable
SchemaShapes == {"empty", "agent", "failed"}

SchemaEntry(database, j, shape) ==
    [name |-> SchemaName(j), ok |-> shape # "failed",
     agent_rows |-> IF shape = "empty" THEN << >>
                    ELSE <<AgentRow(database, SchemaName(j), "A1")>>]

\* what SHOW SCHEMAS can list in a database
SchemaShapeLists == UNION {[1..m -> SchemaShapes] : m \in 0..MaxSchemas}

\* a database that can be entered, with its schemas, or one that cannot:
\* what the schemas of the latter hold is never asked for, so one content
\* stands for all - every schema holds an agent
DatabaseShapes ==
    {[ok |-> TRUE, schemas |-> l] : l \in SchemaShapeLists}
    \cup {[ok |-> FALSE, schemas |-> [j \in 1..MaxSchemas |-> "agent"]]}

DatabaseEntry(i, shape) ==
    [name |-> DatabaseName(i), ok |-> shape.ok,
     schemas |-> [j \in 1..Len(shape.schemas) |->
                     SchemaEntry(DatabaseName(i), j, shape.schemas[j])]]

\* the catalog in which SHOW DATABASES lists databases of these shapes
Catalog(shapes) ==
    [show_ok |-> TRUE,
     databases |-> [i \in 1..Len(shapes) |-> DatabaseEntry(i, shapes[i])]]

NoCatalog == [show_ok |-> FALSE, databases |-> << >>]

InitList ==
    /\ \/ disc = [done |-> FALSE, catalog |-> NoCatalog]
       \/ \E n \in 0..MaxDatabases : \E shapes \in [1..n -> DatabaseShapes] :
            disc = [done |-> FALSE, catalog |-> Catalog(shapes)]
    /\ auth = Idle
    /\ remote = << >>
    /\ cmd = "none"
    /\ imp = Idle
    /\ calls = << >>
    /\ exp = Idle
    /\ bulk = Idle
    /\ dep = Idle
    /\ rows = << >>
    /\ parsed = NoParse
    /\ hostres = Idle
    /\ par = Idle
    /\ chat = Idle

ListAllAgents ==
    /\ ~disc.done
    /\ disc' = list_all_agents(disc.catalog)
    /\ UNCHANGED <<remote, cmd, imp, calls, exp, bulk, dep, rows, parsed, auth, hostres, par, chat>>

NextList == ListAllAgents

SpecList == InitList /\ [][NextList]_vars

\* the coordinates the catalog holds in scopes whose enumeration succeeds
Enumerable ==
    {Coord(d.name, s.name, r.name) :
        <<d, s, r>> \in {<<d, s, r>> \in
            UNION {UNION {{<<disc.catalog.databases[i],
                            disc.catalog.databases[i].schemas[j],
                            disc.catalog.databases[i].schemas[j].agent_rows[k]>> :
                             k \in 1..Len(disc.catalog.databases[i].schemas[j].agent_rows)} :
                          j \in 1..Len(disc.catalog.databases[i].schemas)} :
                   i \in 1..Len(disc.catalog.databases)} :
            d.ok /\ s.ok}}

Listed == {disc.agents[k] : k \in 1..Len(disc.agents)}

\* C13: discovery skips a database whose schemas cannot be enumerated and a
\* schema whose agents cannot be enumerated, goes on with the other scopes,
\* and returns exactly the agents of the scopes that could be enumerated.
C13_DiscoverySkipsFailedScopes ==
    (disc.done /\ ~disc.raised) =>
        /\ Listed = Enumerable
        /\ Len(disc.agents) = Cardinality(Enumerable)

\* a failed database and a failed schema, both holding agents, come before
\* the one schema that is listed
C13_Witness ==
    /\ disc.done
    /\ ~disc.raised
    /\ Len(disc.catalog.databases) = 2
    /\ ~disc.catalog.databases[1].ok
    /\ disc.catalog.databases[1].schemas[1].agent_rows # << >>
    /\ disc.catalog.databases[2].ok
    /\ Len(disc.catalog.databases[2].schemas) = 2
    /\ ~disc.catalog.databases[2].schemas[1].ok
    /\ disc.agents = <<Coord("DB2", "S2", "A1")>>

(***************************************************************************)
(* Specification SpecHost: the host a REST call is sent to.  The host is   *)
(* resolved by get_rest_api_config and normalized once more at the top of  *)
(* create_agent_via_rest.                                                  *)
(***************************************************************************)
MaxHostLen == 3

HostChars == {"M", "O", "y", "_", "-"}
UpperChars == {"M", "O", "H"}

AccountIds == UNION {[1..n -> HostChars] : n \in 0..MaxHostLen}

InitHost ==
    /\ hostres \in {[done |-> FALSE, host |-> h, token |-> t, account |-> a] :
                    h \in HostArgs, t \in Tokens, a \in AccountIds}
    /\ par = Idle
    /\ chat = Idle
    /\ auth = Idle
    /\ disc = Idle
    /\ remote = << >>
    /\ cmd = "none"
    /\ imp = Idle
    /\ calls = << >>
    /\ exp = Idle
    /\ bulk = Idle
    /\ dep = Idle
    /\ rows = << >>
    /\ parsed = NoParse

\* import_agent from get_rest_api_config to the URL of the POST
ResolveHost ==
    /\ ~hostres.done
    /\ LET api == get_rest_api_config(hostres.host, hostres.token, hostres.account)
       IN  hostres' = [done |-> TRUE, host |-> hostres.host, token |-> hostres.token,
                    account |-> hostres.account, ok |-> api.ok, api_host |-> api.host,
                    url_host |-> IF api.ok
                                 THEN PostUrl(NormalizeHost(api.host), "DB1", "S1").host
                                 ELSE << >>]
    /\ UNCHANGED <<remote, cmd, imp, calls, exp, bulk, dep, rows, parsed, disc, auth, par, chat>>

NextHost == ResolveHost

SpecHost == InitHost /\ [][NextHost]_vars

\* C16: with no explicit host, the REST host is the account identifier,
\* lowercased and with every underscore replaced by a hyphen, followed by
\* .snowflakecomputing.com; normalizing again in create_agent_via_rest leaves
\* the host unchanged.
C16_HostFromAccount ==
    (hostres.done /\ hostres.ok) =>
        /\ hostres.url_host = hostres.api_host
        /\ \A i \in 1..Len(hostres.api_host) : hostres.api_host[i] \notin UpperChars \cup {"_"}
        /\ NoText(hostres.host) =>
            /\ Len(hostres.api_host) = Len(hostres.account) + 1
            /\ hostres.api_host[Len(hostres.api_host)] = ".snowflakecomputing.com"
            /\ \A i \in 1..Len(hostres.account) :
                /\ hostres.account[i] = "_" => hostres.api_host[i] = "-"
                /\ hostres.account[i] = "M" => hostres.api_host[i] = "m"
                /\ hostres.account[i] = "O" => hostres.api_host[i] = "o"
                /\ hostres.account[i] \notin UpperChars \cup {"_"}
                    => hostres.api_host[i] = hostres.account[i]

\* M_O gives m-o.snowflakecomputing.com
C16_Witness ==
    /\ hostres.done
    /\ hostres.ok
    /\ NoText(hostres.host)
    /\ hostres.account = <<"M", "_", "O">>
    /\ hostres.api_host = <<"m", "-", "o", ".snowflakecomputing.com">>
    /\ hostres.url_host = <<"m", "-", "o", ".snowflakecomputing.com">>

(***************************************************************************)
(* get_snowflake_connection.  args are the function's arguments, env the   *)
(* environment variables (None: not set); key_ok says whether the private  *)
(* key file can be read and decoded, connect_ok whether connect succeeds.  *)
(***************************************************************************)
\* if password:
UsePassword(password) == ~Falsy(password)

UsePrivateKeyWheneverGiven(password, private_key_path) == ~Falsy(private_key_path)

\* elif private_key_path:
UsePrivateKey(password, private_key_path) ==
    ~UsePassword(password) /\ ~Falsy(private_key_path)

\* the missing list
MissingRequired(account, user) ==
    (IF Falsy(account) THEN {"account"} ELSE {})
    \cup (IF Falsy(user) THEN {"user"} ELSE {})

\* the DER bytes of the key loaded from path with the passphrase
PrivateKeyBytes(path, passphrase) ==
    [der_of |-> path, passphrase |-> IF Falsy(passphrase) THEN None ELSE passphrase]

ConnRecord(args, env, error, names, params, attempted, connected) ==
    [done |-> TRUE, args |-> args, env |-> env, error |-> error, names |-> names,
     params |-> params, connect_attempted |-> attempted, connected |-> connected]

get_snowflake_connection(args, env, key_ok, connect_ok) ==
    LET account == PyOr(args.account, env.SNOWFLAKE_ACCOUNT)
        user == PyOr(args.user, env.SNOWFLAKE_USER)
        password == PyOr(args.password, env.SNOWFLAKE_PASSWORD)
        warehouse == PyOr(args.warehouse, env.SNOWFLAKE_WAREHOUSE)
        role == PyOr(args.role, "ACCOUNTADMIN")
        private_key_path == PyOr(args.private_key_path, env.SNOWFLAKE_PRIVATE_KEY_PATH)
        base == [account |-> account, user |-> user, role |-> role]
        withWh == IF Falsy(warehouse) THEN base ELSE base @@ ("warehouse" :> warehouse)
        withPw == IF UsePassword(password) THEN withWh @@ ("password" :> password)
                  ELSE withWh
        params == IF UsePrivateKey(password, private_key_path)
                  THEN withPw @@ ("private_key" :>
                           PrivateKeyBytes(private_key_path,
                                           env.SNOWFLAKE_PRIVATE_KEY_PASSPHRASE))
                  ELSE withPw
        Rec(error, names, p, attempted, connected) ==
            ConnRecord(args, env, error, names, p, attempted, connected)
    IN  IF MissingRequired(account, user) # {}
        THEN Rec("required", MissingRequired(account, user), << >>, FALSE, FALSE)
        ELSE IF ~UsePassword(password) /\ ~UsePrivateKey(password, private_key_path)
        THEN Rec("auth", {"private_key_path", "password"}, << >>, FALSE, FALSE)
        ELSE IF UsePrivateKey(password, private_key_path) /\ ~key_ok
        THEN Rec("key", {}, << >>, FALSE, FALSE)
        ELSE IF ~connect_ok
        THEN Rec("connect", {}, params, TRUE, FALSE)
        ELSE Rec("none", {}, params, TRUE, TRUE)

(***************************************************************************)
(* Specification SpecConn: one call of get_snowflake_connection.           *)
(***************************************************************************)
ConnArgs ==
    [account : {None, "acct"}, user : {None, "usr"}, password : {None, "", "pw"},
     warehouse : {None, "wh"}, role : {None, "R1"}, private_key_path : {None, "arg.p8"}]

ConnEnvs ==
    [SNOWFLAKE_ACCOUNT : {None}, SNOWFLAKE_USER : {None, "envusr"},
     SNOWFLAKE_PASSWORD : {None, "envpw"}, SNOWFLAKE_WAREHOUSE : {None},
     SNOWFLAKE_PRIVATE_KEY_PATH : {None, "env.p8"},
     SNOWFLAKE_PRIVATE_KEY_PASSPHRASE : {None, "pp"}]

InitConn ==
    /\ auth \in {[done |-> FALSE, args |-> a, env |-> e] : a \in ConnArgs, e \in ConnEnvs}
    /\ disc = Idle
    /\ remote = << >>
    /\ cmd = "none"
    /\ imp = Idle
    /\ calls = << >>
    /\ exp = Idle
    /\ bulk = Idle
    /\ dep = Idle
    /\ rows = << >>
    /\ parsed = NoParse
    /\ hostres = Idle
    /\ par = Idle
    /\ chat = Idle

GetSnowflakeConnection ==
    /\ ~auth.done
    /\ \E key_ok \in BOOLEAN, connect_ok \in BOOLEAN :
        auth' = get_snowflake_connection(auth.args, auth.env, key_ok, connect_ok)
    /\ UNCHANGED <<remote, cmd, imp, calls, exp, bulk, dep, rows, parsed, disc, hostres, par, chat>>

NextConn == GetSnowflakeConnection

SpecConn == InitConn /\ [][NextConn]_vars

\* a credential is available from the argument or the environment
PasswordAvailable == ~Falsy(PyOr(auth.args.password, auth.env.SNOWFLAKE_PASSWORD))
KeyPathAvailable ==
    ~Falsy(PyOr(auth.args.private_key_path, auth.env.SNOWFLAKE_PRIVATE_KEY_PATH))

ExactlyOneCredential ==
    ("password" \in DOMAIN auth.params) # ("private_key" \in DOMAIN auth.params)

\* C14 as stated: connect gets a password or a private key, never both, and
\* with neither credential available the call fails with the error that
\* names both options, without attempting a connection.
C14_NeitherCredentialNamesBoth ==
    auth.done =>
        /\ (auth.connect_attempted => ExactlyOneCredential)
        /\ (~PasswordAvailable /\ ~KeyPathAvailable) =>
            /\ auth.error = "auth"
            /\ auth.names = {"private_key_path", "password"}
            /\ ~auth.connect_attempted

\* C14 amended: connect gets exactly one credential form; with neither
\* available no connection is attempted, and the error names both options
\* when account and user are set, the missing account / user otherwise.
C14_OneCredentialForm ==
    auth.done =>
        /\ (auth.connect_attempted => ExactlyOneCredential)
        /\ (auth.connect_attempted /\ PasswordAvailable =>
                "password" \in DOMAIN auth.params)
        /\ (~PasswordAvailable /\ ~KeyPathAvailable) =>
            /\ ~auth.connect_attempted
            /\ auth.error \in {"auth", "required"}
            /\ (auth.error = "auth" <=> auth.names = {"private_key_path", "password"})
            /\ (auth.error = "auth" <=>
                    ~Falsy(PyOr(auth.args.account, auth.env.SNOWFLAKE_ACCOUNT))
                    /\ ~Falsy(PyOr(auth.args.user, auth.env.SNOWFLAKE_USER)))

\* both a password and a key path were given and the connection was made
\* with the password alone
C14_Witness ==
    /\ auth.done
    /\ PasswordAvailable
    /\ KeyPathAvailable
    /\ auth.connect_attempted
    /\ "password" \in DOMAIN auth.params
    /\ "private_key" \notin DOMAIN auth.params

(***************************************************************************)
(* Semantic views.  A YAML document is a sequence of lines, a line a       *)
(* sequence of characters; "name:" stands for those five characters and    *)
(* " " is the only whitespace inside a line.                               *)
(***************************************************************************)
StartsWithName(line) == line # << >> /\ line[1] = "name:"

NameLines(doc) == {i \in 1..Len(doc) : StartsWithName(doc[i])}

\* the first line that starts with name:, 0 if there is none
FirstNameLine(doc) ==
    IF NameLines(doc) = {} THEN 0
    ELSE CHOOSE i \in NameLines(doc) : \A j \in NameLines(doc) : i <= j

HasText(line) == \E k \in 1..Len(line) : line[k] # " "

\* str.strip()
RECURSIVE Strip(_)
Strip(line) ==
    IF line = << >> THEN << >>
    ELSE IF Head(line) = " " THEN Strip(Tail(line))
    ELSE IF line[Len(line)] = " " THEN Strip(SubSeq(line, 1, Len(line) - 1))
    ELSE line

NoName == [matched |-> FALSE, name |-> << >>]

\* \s*(.+)$ applied to what follows name: - rest[1] is the remainder of that
\* line, rest[2..] are the following lines.  \s* also consumes line ends, so
\* the group is taken from the first line that has text; with no text at all
\* the pattern backtracks onto a line holding spaces, or fails.
MatchRest(rest) ==
    LET withText == {j \in 1..Len(rest) : HasText(rest[j])}
    IN  IF withText # {}
        THEN [matched |-> TRUE,
              name |-> Strip(rest[CHOOSE j \in withText : \A k \in withText : j <= k])]
        ELSE IF \E j \in 1..Len(rest) : rest[j] # << >>
             THEN [matched |-> TRUE, name |-> << >>]
             ELSE NoName

\* re.search(r'^name:\s*(.+)$', yaml_content, re.MULTILINE), group(1).strip()
extract_semantic_view_name(doc) ==
    LET i == FirstNameLine(doc)
    IN  IF i = 0 THEN NoName
        ELSE MatchRest(<<Tail(doc[i])>> \o SubSeq(doc, i + 1, Len(doc)))

Statement(op, target, body) == [op |-> op, target |-> target, body |-> body]

\* the statements deploy_semantic_view executes through the cursor
DeployStatements(doc, database, schema, name) ==
    <<Statement("USE DATABASE", <<database>>, << >>),
      Statement("USE SCHEMA", <<schema>>, << >>),
      Statement("CALL SYSTEM$CREATE_SEMANTIC_VIEW_FROM_YAML", <<database, schema>>, doc),
      Statement("SHOW VIEWS LIKE", <<database, schema>>, <<name>>)>>

DeployRecord(doc, exists, dry_run, name, exit, error, attempted, opened, closed, executed, sql_written) ==
    [done |-> TRUE, doc |-> doc, exists |-> exists, dry_run |-> dry_run,
     name |-> name, exit |-> exit, error |-> error, conn_attempted |-> attempted,
     conn_opened |-> opened, conn_closed |-> closed, executed |-> executed,
     sql_written |-> sql_written]

\* if not semantic_view_name: ... sys.exit(1)
NameMissing(name) == name = << >>

\* deploy_semantic_view, the whole command: exists says whether the YAML
\* file exists, fail_at which statement raises (0: none)
deploy_semantic_view(exists, doc, database, schema, output_sql, dry_run, connect_ok, fail_at) ==
    LET name == extract_semantic_view_name(doc).name
        stmts == DeployStatements(doc, database, schema, name)
        Rec(exit, error, attempted, opened, executed, sql_written) ==
            DeployRecord(doc, exists, dry_run, name, exit, error, attempted,
                         opened, ConnClosed(opened, exit), executed, sql_written)
    IN  IF ~exists
        THEN DeployRecord(doc, exists, dry_run, << >>, 1, "no_file", FALSE, FALSE,
                          FALSE, << >>, FALSE)
        ELSE IF NameMissing(name)
        THEN Rec(1, "no_name", FALSE, FALSE, << >>, FALSE)
        ELSE IF dry_run
        THEN Rec(0, "none", FALSE, FALSE, << >>, output_sql)
        ELSE IF ~connect_ok
        THEN Rec(1, "connect", TRUE, FALSE, << >>, output_sql)
        ELSE IF fail_at \in 1..Len(stmts)
        THEN Rec(1, "statement", TRUE, TRUE, SubSeq(stmts, 1, fail_at), output_sql)
        ELSE Rec(0, "none", TRUE, TRUE, stmts, output_sql)

(***************************************************************************)
(* Specification SpecDeploy: one deploy_semantic_view invocation on every  *)
(* document of up to MaxLines lines.                                       *)
(***************************************************************************)
MaxLines == 2

Lines ==
    {<<"name:", " ", "F", " ", "B">>,
     <<"name:", "F", " ">>,
     <<"name:">>,
     <<"name:", " ">>,
     <<" ", "name:", " ", "B">>,
     <<"t", ":">>,
     <<" ", "d">>,
     << >>}

Docs == UNION {[1..n -> Lines] : n \in 0..MaxLines}

InitDeploy ==
    /\ dep = Idle
    /\ remote = << >>
    /\ cmd = "none"
    /\ imp = Idle
    /\ calls = << >>
    /\ exp = Idle
    /\ bulk = Idle
    /\ rows = << >>
    /\ parsed = NoParse
    /\ hostres = Idle
    /\ par = Idle
    /\ chat = Idle
    /\ disc = Idle
    /\ auth = Idle

DeploySemanticView ==
    /\ ~dep.done
    /\ \E doc \in Docs, exists \in BOOLEAN, output_sql \in BOOLEAN, dry_run \in BOOLEAN,
          connect_ok \in BOOLEAN, fail_at \in 0..4 :
        /\ (~connect_ok => fail_at = 0)
        /\ dep' = deploy_semantic_view(exists, doc, "DB1", "S1", output_sql, dry_run,
                                       connect_ok, fail_at)
    /\ cmd' = "deploy"
    /\ UNCHANGED <<remote, imp, calls, exp, bulk, rows, parsed, disc, auth, hostres, par, chat>>

NextDeploy == DeploySemanticView

SpecDeploy == InitDeploy /\ [][NextDeploy]_vars

\* C10: the extracted name is the trimmed text after name: on the first line
\* that starts with name:; with no such line the deploy exits non-zero before
\* a connection is opened or a statement executed.
C10_NameFromFirstNameLine ==
    (dep.done /\ dep.exists) =>
        LET i == FirstNameLine(dep.doc)
        IN  /\ i = 0 => /\ dep.exit # 0
                        /\ ~dep.conn_attempted
                        /\ dep.executed = << >>
            /\ i # 0 => dep.name = Strip(Tail(dep.doc[i]))

(***************************************************************************)
(* generate_semantic_view_sql: the statements of the rendered script.  A   *)
(* Statement's body is the text between the $$ markers up to its closing   *)
(* line break; the script wraps yaml_content.rstrip() and one empty line,  *)
(* the executed call wraps yaml_content as read.                           *)
(***************************************************************************)
\* str.rstrip() on one line
RECURSIVE RStripLine(_)
RStripLine(line) ==
    IF line = << >> THEN << >>
    ELSE IF line[Len(line)] = " " THEN RStripLine(SubSeq(line, 1, Len(line) - 1))
    ELSE line

\* str.rstrip() on a document: trailing blank lines go, then the trailing
\* blanks of the last line left
RECURSIVE RStripDoc(_)
RStripDoc(doc) ==
    IF doc = << >> THEN << >>
    ELSE IF ~HasText(doc[Len(doc)]) THEN RStripDoc(SubSeq(doc, 1, Len(doc) - 1))
    ELSE SubSeq(doc, 1, Len(doc) - 1) \o <<RStripLine(doc[Len(doc)])>>

generate_semantic_view_sql(doc, database, schema, name) ==
    <<Statement("USE ROLE", <<"ACCOUNTADMIN">>, << >>),
      Statement("USE DATABASE", <<database>>, << >>),
      Statement("USE SCHEMA", <<schema>>, << >>),
      Statement("CALL SYSTEM$CREATE_SEMANTIC_VIEW_FROM_YAML", <<database, schema>>, RStripDoc(doc)),
      Statement("SHOW VIEWS LIKE", <<database, schema>>, <<name>>)>>

Deployed == dep.done /\ ~dep.dry_run /\ dep.exit = 0 /\ dep.error = "none"

\* C24: a non-dry-run deploy whose statements all succeed executes the same
\* sequence of statements as the rendered script holds: the same
\* context-setting statements, the same procedure call with the same document
\* body, the same existence check.
C24_ExecutesRenderedScript ==
    Deployed => dep.executed = generate_semantic_view_sql(dep.doc, "DB1", "S1", dep.name)

(***************************************************************************)
(* parse_create_body: the first non-empty matching field decides           *)
(***************************************************************************)
\* the row's legacy field is non-empty and matches
HoldsLegacy(row) ==
    /\ row.property.ty = "str"
    /\ Lower(row.property.s[1]) \in {"create_body", "definition"}
    /\ row.value.ty = "str"
    /\ row.value.s # << >>

\* the first matching field of the row is a string that is not JSON
HoldsMalformed(row) ==
    \/ HoldsLegacy(row) /\ ~Loads(row.value.s).ok
    \/ /\ ~HoldsLegacy(row)
       /\ row.agent_spec.ty = "str" /\ row.agent_spec.s # << >>
       /\ ~Loads(row.agent_spec.s).ok

\* the row alone would yield a body
HoldsBody(row) == HoldsField(row) /\ ~HoldsMalformed(row)

\* C29: the first row holding a non-empty matching field decides the result:
\* if its value is malformed JSON the result is not found, whatever later rows
\* hold; rows whose matching field is empty, or whose agent_spec is neither a
\* string nor a dict, are skipped, so a body behind them is still found.
C29_FirstNonEmptyFieldDecides ==
    parsed.done =>
        /\ \A i \in 1..Len(rows) :
            (\A j \in 1..(i - 1) : ~HoldsField(rows[j])) =>
                /\ HoldsMalformed(rows[i]) => parsed.r = NotFound
                /\ HoldsBody(rows[i]) => parsed.r.found
        /\ (\A i \in 1..Len(rows) : ~HoldsField(rows[i])) => parsed.r = NotFound

\* a malformed first row hides the valid body of the row after it
C29_Witness ==
    /\ parsed.done
    /\ Len(rows) >= 2
    /\ HoldsMalformed(rows[1])
    /\ HoldsBody(rows[2])
    /\ parsed.r = NotFound

(***************************************************************************)
(* streamlit/utils/data_loader.py: run_queries_parallel.  The calling      *)
(* thread submits every query to a pool of max_workers threads, takes the  *)
(* futures in completion order, and looks at errors once all are taken.    *)
(* Each worker step and each iteration of the collecting loop is one       *)
(* action, so every interleaving of the workers is a behaviour.            *)
(***************************************************************************)
MaxQueries == 2

QueryName(i) == "q" \o ToString(i)

QueryNames == {QueryName(i) : i \in 1..MaxQueries}

\* what session.sql(query).to_pandas() does: returns a frame, returns None,
\* raises with a message, raises an exception whose str() is empty
QueryOutcomes == {"frame", "none", "raises", "raises_silent"}

Frame(name) == [ty |-> "frame", of |-> name]

NoFrame == [ty |-> "none", of |-> ""]

\* execute_query: the triple the future holds
execute_query(name, outcome) ==
    CASE outcome = "frame" -> [name |-> name, df |-> Frame(name), error |-> PyNone]
      [] outcome = "none" -> [name |-> name, df |-> NoFrame, error |-> Str(<<"returned None">>)]
      [] outcome = "raises" -> [name |-> name, df |-> NoFrame, error |-> Str(<<"boom">>)]
      [] OTHER -> [name |-> name, df |-> NoFrame, error |-> Str(<< >>)]

\* the query did not produce a frame
QueryFailed(outcome) == outcome # "frame"

NoResults == [n \in {} |-> NoFrame]

ParRecord(pc, queries, outcome, max_workers, status, order, results, errors, started, returned, raised) ==
    [pc |-> pc, queries |-> queries, outcome |-> outcome, max_workers |-> max_workers,
     status |-> status, order |-> order, results |-> results, errors |-> errors,
     started |-> started, returned |-> returned, raised |-> raised]

NotCalled == [pc |-> "idle"]

InitQueries ==
    /\ par = NotCalled
    /\ chat = Idle
    /\ remote = << >>
    /\ cmd = "none"
    /\ imp = Idle
    /\ calls = << >>
    /\ exp = Idle
    /\ bulk = Idle
    /\ dep = Idle
    /\ rows = << >>
    /\ parsed = NoParse
    /\ disc = Idle
    /\ auth = Idle
    /\ hostres = Idle

\* the call up to the end of the submitting comprehension
SubmitQueries ==
    /\ par.pc = "idle"
    /\ \E queries \in SUBSET QueryNames, max_workers \in 1..MaxQueries :
        \E outcome \in [queries -> QueryOutcomes] :
            par' = IF queries = {}
                   THEN ParRecord("done", queries, outcome, max_workers, outcome, << >>,
                                  NoResults, << >>, FALSE, TRUE, FALSE)
                   ELSE ParRecord("collecting", queries, outcome, max_workers,
                                  [n \in queries |-> "pending"], << >>,
                                  NoResults, << >>, TRUE, FALSE, FALSE)
    /\ UNCHANGED <<remote, cmd, imp, calls, exp, bulk, dep, rows, parsed, disc, auth, hostres, chat>>

Running == {n \in par.queries : par.status[n] = "running"}

\* a free pool thread takes a submitted query
StartQuery ==
    /\ par.pc = "collecting"
    /\ Cardinality(Running) < par.max_workers
    /\ \E n \in par.queries :
        /\ par.status[n] = "pending"
        /\ par' = [par EXCEPT !.status[n] = "running"]
    /\ UNCHANGED <<remote, cmd, imp, calls, exp, bulk, dep, rows, parsed, disc, auth, hostres, chat>>

\* execute_query returns in its thread: the future is complete
FinishQuery ==
    /\ par.pc = "collecting"
    /\ \E n \in par.queries :
        /\ par.status[n] = "running"
        /\ par' = [par EXCEPT !.status[n] = "finished"]
    /\ UNCHANGED <<remote, cmd, imp, calls, exp, bulk, dep, rows, parsed, disc, auth, hostres, chat>>

Taken == {par.order[i] : i \in 1..Len(par.order)}

\* "if error:" on the triple of a future
CollectAsError(future) == Truthy(future.error)

\* one iteration of "for future in as_completed(...)"
CollectFuture ==
    /\ par.pc = "collecting"
    /\ \E n \in par.queries \ Taken :
        /\ par.status[n] = "finished"
        /\ LET future == execute_query(n, par.outcome[n])
           IN  par' = IF CollectAsError(future)
                      THEN [par EXCEPT !.order = Append(@, n),
                                       !.errors = Append(@, [name |-> n, error |-> future.error])]
                      ELSE [par EXCEPT !.order = Append(@, n),
                                       !.results = (n :> future.df) @@ @]
    /\ UNCHANGED <<remote, cmd, imp, calls, exp, bulk, dep, rows, parsed, disc, auth, hostres, chat>>

\* the loop is over, the pool is shut down: raise or return
FinishCall ==
    /\ par.pc = "collecting"
    /\ Taken = par.queries
    /\ par' = [par EXCEPT !.pc = "done", !.raised = (par.errors # << >>),
                          !.returned = (par.errors = << >>)]
    /\ UNCHANGED <<remote, cmd, imp, calls, exp, bulk, dep, rows, parsed, disc, auth, hostres, chat>>

NextQueries == SubmitQueries \/ StartQuery \/ FinishQuery \/ CollectFuture \/ FinishCall

SpecQueries == InitQueries /\ [][NextQueries]_vars

CallOver == par.pc = "done"

\* C25: the call is fail-fast: once the future of a failed query has been
\* taken the call raises without waiting for another future, so in a call
\* that raised the first failed query taken is the last future taken.
C25_FailFast ==
    (CallOver /\ par.raised) =>
        \A i \in 1..Len(par.order) :
            QueryFailed(par.outcome[par.order[i]]) => i = Len(par.order)

\* C26: under every interleaving the call either returns a mapping holding
\* exactly the frame of every query given, no query having failed, or raises
\* when at least one query failed; an empty query set returns an empty
\* mapping and starts no worker.
C26_AllOrNothing ==
    CallOver =>
        /\ par.returned # par.raised
        /\ par.raised <=> \E n \in par.queries : QueryFailed(par.outcome[n])
        /\ par.returned =>
            /\ DOMAIN par.results = par.queries
            /\ \A n \in par.queries : par.results[n] = Frame(n)
        /\ par.queries = {} => par.returned /\ ~par.started

(***************************************************************************)
(* Specification SpecSql: one invocation of a command that talks to the    *)
(* backend over a connection: export, export-all or deploy-semantic-view.  *)
(***************************************************************************)
DeployFromShell ==
    /\ cmd = "none"
    /\ DeploySemanticView

NextSql ==
    \/ ExportAgent
    \/ ExportAllAgents
    \/ DeployFromShell

SpecSql == Init /\ [][NextSql]_vars

\* C27: in export_agent, export_all_agents and deploy_semantic_view a
\* connection that was opened is closed by the time the process ends, on
\* every path: normal completion, the early return when nothing is found, the
\* not-found exit(1) and any exception; none is closed that was not opened.
C27_OpenedConnectionIsClosed ==
    /\ exp.done => (exp.conn_closed <=> exp.conn_opened)
    /\ bulk.done => (bulk.conn_closed <=> bulk.conn_opened)
    /\ dep.done => (dep.conn_closed <=> dep.conn_opened)

\* the not-found exit(1) of export_agent, taken with the connection open
C27_Witness ==
    /\ exp.done
    /\ exp.error = "not_found"
    /\ exp.exit = 1
    /\ exp.conn_opened
    /\ exp.conn_closed

(***************************************************************************)
(* Specification SpecBulk: export-all with its discovery run against a     *)
(* catalog, so that what list_all_agents does decides what                 *)
(* export_all_agents sees.  Every agent listed answers DESCRIBE.           *)
(***************************************************************************)
InitBulk ==
    /\ disc = Idle
    /\ bulk = Idle
    /\ remote = << >>
    /\ cmd = "none"
    /\ imp = Idle
    /\ calls = << >>
    /\ exp = Idle
    /\ dep = Idle
    /\ rows = << >>
    /\ parsed = NoParse
    /\ auth = Idle
    /\ hostres = Idle
    /\ par = Idle
    /\ chat = Idle

\* export_all_agents with list_all_agents(conn) evaluated on the catalog
ExportAllOf(catalog, connect_ok, mkdir_ok, outcome) ==
    LET d == list_all_agents(catalog)
        store == [c \in {d.agents[k] : k \in 1..Len(d.agents)} |-> StoredReply(BodyB)]
    IN  /\ disc' = IF connect_ok THEN d ELSE Idle
        /\ bulk' = export_all_agents("out", "USER1", None, None, connect_ok, ~d.raised,
                                     mkdir_ok, d.agents,
                                     [i \in 1..Len(d.agents) |-> outcome], store)

ExportAllDiscovering ==
    /\ cmd = "none"
    /\ \E connect_ok \in BOOLEAN, mkdir_ok \in BOOLEAN, outcome \in Outcomes :
        \/ ExportAllOf(NoCatalog, connect_ok, mkdir_ok, outcome)
        \/ \E n \in 0..MaxDatabases : \E shapes \in [1..n -> DatabaseShapes] :
            ExportAllOf(Catalog(shapes), connect_ok, mkdir_ok, outcome)
    /\ cmd' = "export_all"
    /\ UNCHANGED <<remote, imp, calls, exp, dep, rows, parsed, auth, hostres, par, chat>>

NextBulk == ExportAllDiscovering

SpecBulk == InitBulk /\ [][NextBulk]_vars

\* export-all got as far as discovery and SHOW DATABASES failed
ShowDatabasesFailed == bulk.done /\ disc.done /\ ~disc.catalog.show_ok

\* C28: when SHOW DATABASES fails, list_all_agents raises, export_all_agents
\* exits with status 1, and neither the output directory nor any artifact is
\* written (no agent is attempted).
C28_TopLevelFailureIsFatal ==
    ShowDatabasesFailed =>
        /\ disc.raised
        /\ bulk.exit = 1
        /\ ~bulk.mkdir
        /\ bulk.written = << >>
        /\ bulk.attempted = << >>

\* an export-all whose discovery raised on SHOW DATABASES and which exited 1
C28_Witness ==
    /\ ShowDatabasesFailed
    /\ disc.raised
    /\ bulk.conn_opened
    /\ bulk.exit = 1
    /\ bulk.error = "discover"

(***************************************************************************)
(* streamlit/components/chat_agent.py: the chat widget.  Every user        *)
(* interaction reruns render_chat_widget once, top to bottom, with the     *)
(* widget that was used reporting True in that run; a render is one        *)
(* action.  chat holds the two session-state entries, what the render put  *)
(* on screen, and the questions passed to query_agent so far.              *)
(***************************************************************************)
MaxQuestions == 2

Question(i) == "question" \o ToString(i)

\* texts a question can have: the sample buttons offer the first
Questions == {Question(i) : i \in 1..MaxQuestions}

SampleQuestions == {Question(1)}

\* what the text area holds when the form is submitted
Prompts == Questions \cup {""}

\* what query_agent returns: a response, an error naming a missing agent,
\* any other error
AgentResults == {"response", "error_not_found", "error"}

UserMessage(question) == [role |-> "user", content |-> question]

AssistantMessage(content) == [role |-> "assistant", content |-> content]

\* the content of the assistant message built from the result
ResponseContent(question, result) ==
    CASE result = "error_not_found" -> "Agent Not Found"
      [] result = "error" -> "Error"
      [] OTHER -> "answer to " \o question

\* "if st.session_state.pending_question:"
PendingSet(pending) == pending # None /\ pending # ""

\* the pair of session-state entries
Session(messages, pending) == [messages |-> messages, pending |-> pending]

\* handle_question
handle_question(session, question) ==
    Session(Append(session.messages, UserMessage(question)), question)

\* the start of a render: the pending question, if any, is answered
ProcessPending(session, result) ==
    IF PendingSet(session.pending)
    THEN Session(Append(session.messages,
                        AssistantMessage(ResponseContent(session.pending, result))),
                 None)
    ELSE session

\* the triggers of a rerun: a widget outside the chat (or the first load),
\* a sample button, the Clear Chat button, the form's Send button
Triggers == {"other", "sample", "clear", "submit"}

render_chat_widget(c, trigger, sample, prompt, result) ==
    LET s0 == Session(c.messages, c.pending)
        s1 == ProcessPending(s0, result)
        s2 == IF trigger = "sample" THEN handle_question(s1, sample) ELSE s1
        clear_shown == s2.messages # << >>
        s3 == IF clear_shown /\ trigger = "clear" THEN Session(<< >>, None) ELSE s2
        s4 == IF trigger = "submit" /\ prompt # "" THEN handle_question(s3, prompt) ELSE s3
        queued == (IF s2 # s1 THEN 1 ELSE 0) + (IF s4 # s3 THEN 1 ELSE 0)
    IN  [started |-> TRUE, messages |-> s4.messages, pending |-> s4.pending,
         clear_shown |-> clear_shown, conversation |-> s2.messages,
         trigger |-> trigger, processed |-> PendingSet(s0.pending),
         appended |-> Len(s1.messages) - Len(s0.messages),
         cleared |-> (clear_shown /\ trigger = "clear"),
         asked |-> IF PendingSet(s0.pending) THEN Append(c.asked, s0.pending) ELSE c.asked,
         queued |-> c.queued + queued]

NoChat ==
    [started |-> FALSE, messages |-> << >>, pending |-> None, clear_shown |-> FALSE,
     conversation |-> << >>, trigger |-> "none", processed |-> FALSE, appended |-> 0,
     cleared |-> FALSE, asked |-> << >>, queued |-> 0]

InitChat ==
    /\ chat = NoChat
    /\ par = Idle
    /\ remote = << >>
    /\ cmd = "none"
    /\ imp = Idle
    /\ calls = << >>
    /\ exp = Idle
    /\ bulk = Idle
    /\ dep = Idle
    /\ rows = << >>
    /\ parsed = NoParse
    /\ disc = Idle
    /\ auth = Idle
    /\ hostres = Idle

\* a widget can only be used if the previous render put it on screen
Usable(trigger) ==
    CASE trigger = "other" -> TRUE
      [] trigger = "clear" -> chat.started /\ chat.clear_shown
      [] OTHER -> chat.started /\ chat.queued < MaxQuestions

RenderChatWidget ==
    /\ \E trigger \in Triggers, sample \in SampleQuestions, prompt \in Prompts,
          result \in AgentResults :
        /\ Usable(trigger)
        /\ chat' = render_chat_widget(chat, trigger, sample, prompt, result)
    /\ UNCHANGED <<remote, cmd, imp, calls, exp, bulk, dep, rows, parsed, disc, auth, hostres, par>>

NextChat == RenderChatWidget

SpecChat == InitChat /\ [][NextChat]_vars

\* every queued question is either still pending or was passed to the agent
\* once: none is processed twice, none is lost
C30_AtMostOnce ==
    Len(chat.asked) + (IF PendingSet(chat.pending) THEN 1 ELSE 0) = chat.queued

\* a render that processes a question appends one assistant message for it,
\* at its start, and ends with nothing pending unless it queued a new question
C30_OneAnswer ==
    /\ chat.processed <=> chat.appended = 1
    /\ ~chat.processed => chat.appended = 0
    /\ PendingSet(chat.pending) =>
        /\ chat.messages # << >>
        /\ chat.messages[Len(chat.messages)] = UserMessage(chat.pending)
        /\ chat.trigger \in {"sample", "submit"}

\* after Clear Chat the message list and pending_question are empty
C30_ClearEmpties ==
    chat.cleared => chat.messages = << >> /\ chat.pending = None

\* the render in which Clear Chat acts appends no assistant message
C30_NoAnswerForCleared ==
    chat.cleared => ~chat.processed /\ chat.appended = 0

\* C30: over any sequence of renders, submissions and Clear Chat actions a
\* queued question is processed at most once, at the start of a later render
\* that appends exactly one assistant message and resets pending_question;
\* after Clear Chat the message list and pending_question are empty, and no
\* assistant message is appended for a question that was cleared.
C30_ChatQueue ==
    /\ C30_AtMostOnce
    /\ C30_OneAnswer
    /\ C30_ClearEmpties
    /\ C30_NoAnswerForCleared

====
